---- MODULE Spec2Model ----
(***************************************************************************)
(* Tool registry of mcp-server-blueprint: the tools table with its unique  *)
(* name constraint, the repository and service operations over it, the     *)
(* static handler registry, and the MCP registrar with its per-tool stubs. *)
(***************************************************************************)
EXTENDS Integers, Sequences, FiniteSets, TLC

VARIABLES
    tools,       \* the rows of table "tools" (a set of row records)
    nextId,      \* next value of the id sequence (autoincrement primary key)
    started,     \* TRUE once load_and_register_tools has run in the MCP process
    loaded,      \* the tools of the list list_tools(active_only=True) gave the startup pass
    registered,  \* what the transport (FastMCP) holds: one entry per registered stub
    tasks,       \* concurrent create_tool calls suspended between their awaits
    last         \* the operation that ran last, its arguments and its outcome

vars == <<tools, nextId, started, loaded, registered, tasks, last>>

----------------------------------------------------------------------------
(* Bounds of the model *)

\* number of ids the id sequence hands out
MaxId == 2
\* number of concurrent callers of create_tool
MaxTasks == 2

----------------------------------------------------------------------------
(* Values *)

\* Python's None where a string is expected
None == "<None>"

\* Python values passed as tool parameters: int, float, str, None
PyInt(n)   == [t |-> "int",   n |-> n, s |-> ""]
PyFloat(n) == [t |-> "float", n |-> n, s |-> ""]
PyStr(s)   == [t |-> "str",   n |-> 0, s |-> s]
PyNone     == [t |-> "NoneType", n |-> 0, s |-> ""]
\* an int too large for a C double, such as 10**400
PyBigInt   == [t |-> "int",   n |-> -1, s |-> "10**400"]

\* dict.get(key, default) on a parameter mapping
Get(parameters, key, default) ==
    IF key \in DOMAIN parameters THEN parameters[key] ELSE default

\* the decimal strings float() parses, with their value
NumericStrings == [s \in {"7"} |-> 7]

\* float(x): the converted number, or the exception float() raises
float(x) ==
    IF x = PyBigInt THEN [exc |-> "OverflowError",
                          msg |-> <<"int too large to convert to float">>]
    ELSE IF x.t \in {"int", "float"} THEN [exc |-> "", val |-> x.n]
    ELSE IF x.t = "str" THEN
        IF x.s \in DOMAIN NumericStrings
        THEN [exc |-> "", val |-> NumericStrings[x.s]]
        ELSE [exc |-> "ValueError",
              msg |-> <<"could not convert string to float: '", x.s, "'">>]
    ELSE [exc |-> "TypeError",
          msg |-> <<"float() argument must be a string or a real number, not '",
                    x.t, "'">>]

\* what a handler call ends in: a returned mapping or a raised exception
Returned(value) == [raised |-> FALSE, value |-> value]
Raised(exc, msg) == [raised |-> TRUE, exc |-> exc, msg |-> msg]

----------------------------------------------------------------------------
(* Handler registry: src/core/services/tool_handlers.py *)

echo_handler(parameters) ==
    LET text == Get(parameters, "text", PyStr("")) IN
    Returned([success |-> TRUE,
              message |-> <<"Echo: ", text>>,
              original_text |-> text])

calculator_add_handler(parameters) ==
    LET a == Get(parameters, "a", PyInt(0))
        b == Get(parameters, "b", PyInt(0))
        fa == float(a)
        fb == float(b)
        \* float(a) is evaluated first; its exception hides float(b)'s
        failed == IF fa.exc # "" THEN fa ELSE fb
    IN  IF fa.exc = "" /\ fb.exc = ""
        THEN Returned([success |-> TRUE,
                       operation |-> "addition",
                       a |-> a,
                       b |-> b,
                       result |-> PyFloat(fa.val + fb.val)])
        ELSE IF failed.exc \in {"ValueError", "TypeError"}
        THEN Returned([success |-> FALSE,
                       error |-> <<"Invalid numbers provided: ">> \o failed.msg])
        ELSE Raised(failed.exc, failed.msg)

TOOL_HANDLERS == {"echo_handler", "calculator_add_handler"}

\* the handler registered under handler_name, or None
get_handler(handler_name) ==
    IF handler_name \in TOOL_HANDLERS THEN handler_name ELSE None

\* handler(parameters) for a handler get_handler returned
CallHandler(handler, parameters) ==
    IF handler = "echo_handler"
    THEN echo_handler(parameters)
    ELSE calculator_add_handler(parameters)

----------------------------------------------------------------------------
(* Tool rows and the store: src/core/models/tool.py, repositories *)

\* Tool(**data) with the id the sequence assigned
Tool(id, data) ==
    [id |-> id,
     name |-> data.name,
     description |-> data.description,
     handler_name |-> data.handler_name,
     parameters_schema |-> data.parameters_schema,
     is_active |-> data.is_active]

\* ToolResponse.model_validate(tool): the public view of a row
ToolResponse(tool) ==
    [id |-> tool.id,
     name |-> tool.name,
     description |-> tool.description,
     handler_name |-> tool.handler_name,
     parameters_schema |-> tool.parameters_schema,
     is_active |-> tool.is_active]

\* the unique constraint on tools.name, checked by the store at commit
NameTaken(T, name, exceptId) ==
    \E r \in T : r.name = name /\ r.id # exceptId

\* an optional row is the set of the rows a query matched (none or one)
get_by_id(T, id) == {r \in T : r.id = id}

get_by_name(T, name) == {r \in T : r.name = name}

\* Neither list query has an ORDER BY: the store yields the table's rows in an
\* order of its own choosing, any enumeration of them, each row once.
Scans(T) ==
    {scan \in [1..Cardinality(T) -> T] :
        \A i, j \in 1..Cardinality(T) : i # j => scan[i] # scan[j]}

\* the elements of a list
Elements(s) == {s[i] : i \in DOMAIN s}

\* the WHERE clause of list_active
IsActive(tool) == tool.is_active = TRUE

\* list_active without its WHERE clause
list_active_unfiltered(scan) == scan

\* list(result.scalars().all()) of select(Tool), the rows as the store yields them
list_all(scan) == scan

\* the same of select(Tool).where(Tool.is_active == True)
list_active(scan) == SelectSeq(scan, IsActive)

TheRow(S) == CHOOSE r \in S : TRUE

\* outcomes of an operation
Ok(value) == [err |-> "", msg |-> <<>>, value |-> value]
Raise(err, msg) == [err |-> err, msg |-> msg, value |-> None]

\* a step's effect: the store after it and its outcome
Effect(T, nid, out) == [tools |-> T, nextId |-> nid, out |-> out]

\* create on a store that enforces no unique constraint on name
create_unchecked(T, nid, data) ==
    Effect(T \cup {Tool(nid, data)}, nid + 1, Ok(Tool(nid, data)))

\* BaseRepository.create: insert and commit; the store rejects a taken name
create(T, nid, data) ==
    IF NameTaken(T, data.name, 0)
    THEN Effect(T, nid,
                Raise("IntegrityError",
                      <<"duplicate key value violates unique constraint: ", data.name>>))
    ELSE Effect(T \cup {Tool(nid, data)}, nid + 1, Ok(Tool(nid, data)))

\* A ToolUpdate dumped with exclude_unset: `values` holds the fields set to a
\* value, `nones` the names of the fields explicitly set to None.
\* update() assigning a column left out of the payload its default
Assigned_with_defaults(instance, data, key) ==
    IF key \in (DOMAIN data.values \cup data.nones) /\ key \notin data.nones
    THEN data.values[key]
    ELSE IF key = "is_active" THEN TRUE
    ELSE instance[key]

\* The value update() assigns to a column: data's when present and not None.
Assigned(instance, data, key) ==
    IF key \in (DOMAIN data.values \cup data.nones) /\ key \notin data.nones
    THEN data.values[key]
    ELSE instance[key]

\* the columns a commit writes: those whose assigned value differs from the
\* value the instance was loaded with
Written(current, instance, data, key) ==
    IF Assigned(instance, data, key) # instance[key]
    THEN Assigned(instance, data, key)
    ELSE current[key]

\* update_commit on a store that enforces no unique constraint on name
update_commit_unchecked(T, nid, instance, data) ==
    IF get_by_id(T, instance.id) = {}
    THEN Effect(T, nid,
                Raise("StaleDataError",
                      <<"UPDATE statement on table 'tools' expected to update 1 row(s); ",
                        "0 were matched.">>))
    ELSE
      LET current == TheRow(get_by_id(T, instance.id))
          changed == [id |-> current.id,
                      name |-> Written(current, instance, data, "name"),
                      description |-> Written(current, instance, data, "description"),
                      handler_name |-> Written(current, instance, data, "handler_name"),
                      parameters_schema |->
                          Written(current, instance, data, "parameters_schema"),
                      is_active |-> Written(current, instance, data, "is_active")]
      IN  Effect((T \ {current}) \cup {changed}, nid, Ok({changed}))

\* BaseRepository.update after get_by_id returned `instance`: setattr each
\* non-None field, then commit, which writes the changed columns of the row
\* with the instance's id and fails when that row is gone or the name is taken
update_commit(T, nid, instance, data) ==
    IF get_by_id(T, instance.id) = {}
    THEN Effect(T, nid,
                Raise("StaleDataError",
                      <<"UPDATE statement on table 'tools' expected to update 1 row(s); ",
                        "0 were matched.">>))
    ELSE
      LET current == TheRow(get_by_id(T, instance.id))
          changed == [id |-> current.id,
                      name |-> Written(current, instance, data, "name"),
                      description |-> Written(current, instance, data, "description"),
                      handler_name |-> Written(current, instance, data, "handler_name"),
                      parameters_schema |->
                          Written(current, instance, data, "parameters_schema"),
                      is_active |-> Written(current, instance, data, "is_active")]
      IN  IF NameTaken(T, changed.name, current.id)
          THEN Effect(T, nid,
                      Raise("IntegrityError",
                            <<"duplicate key value violates unique constraint: ",
                              changed.name>>))
          ELSE Effect((T \ {current}) \cup {changed}, nid, Ok({changed}))

\* BaseRepository.update run without interruption
update(T, nid, id, data) ==
    IF get_by_id(T, id) = {} THEN Effect(T, nid, Ok({}))
    ELSE update_commit(T, nid, TheRow(get_by_id(T, id)), data)

\* BaseRepository.delete: hard delete
delete(T, nid, id) ==
    IF get_by_id(T, id) = {} THEN Effect(T, nid, Ok(FALSE))
    ELSE Effect(T \ get_by_id(T, id), nid, Ok(TRUE))

\* soft_delete / activate reporting a row that already has the flag as not done
SetActive_once(T, nid, id, flag) ==
    IF get_by_id(T, id) = {} THEN Effect(T, nid, Ok(FALSE))
    ELSE LET tool == TheRow(get_by_id(T, id)) IN
         IF tool.is_active = flag THEN Effect(T, nid, Ok(FALSE))
         ELSE Effect((T \ {tool}) \cup {[tool EXCEPT !.is_active = flag]}, nid, Ok(TRUE))

\* ToolRepository.soft_delete / activate: set is_active and commit
SetActive(T, nid, id, flag) ==
    IF get_by_id(T, id) = {} THEN Effect(T, nid, Ok(FALSE))
    ELSE LET tool == TheRow(get_by_id(T, id)) IN
         Effect((T \ {tool}) \cup {[tool EXCEPT !.is_active = flag]}, nid, Ok(TRUE))

soft_delete(T, nid, id) == SetActive(T, nid, id, FALSE)

activate(T, nid, id) == SetActive(T, nid, id, TRUE)

----------------------------------------------------------------------------
(* Tool service: src/core/services/tool_service.py *)

\* create_tool_check with the name looked up among the active rows only
create_tool_check_active_only(T, tool_data) ==
    IF get_handler(tool_data.handler_name) = None
    THEN Raise("ToolHandlerNotFoundError",
               <<"Handler '", tool_data.handler_name, "' not found in registry">>)
    ELSE IF get_by_name({r \in T : IsActive(r)}, tool_data.name) # {}
    THEN Raise("ValidationError",
               <<"Tool with name '", tool_data.name, "' already exists">>)
    ELSE Ok({})

\* create_tool_check with the name looked up before the handler
create_tool_check_name_first(T, tool_data) ==
    IF get_by_name(T, tool_data.name) # {}
    THEN Raise("ValidationError",
               <<"Tool with name '", tool_data.name, "' already exists">>)
    ELSE IF get_handler(tool_data.handler_name) = None
    THEN Raise("ToolHandlerNotFoundError",
               <<"Handler '", tool_data.handler_name, "' not found in registry">>)
    ELSE Ok({})

\* create_tool up to its first await: the handler check and the name pre-check
create_tool_check(T, tool_data) ==
    IF get_handler(tool_data.handler_name) = None
    THEN Raise("ToolHandlerNotFoundError",
               <<"Handler '", tool_data.handler_name, "' not found in registry">>)
    ELSE IF get_by_name(T, tool_data.name) # {}
    THEN Raise("ValidationError",
               <<"Tool with name '", tool_data.name, "' already exists">>)
    ELSE Ok({})

\* create_tool run without interruption
create_tool(T, nid, tool_data) ==
    LET checked == create_tool_check(T, tool_data) IN
    IF checked.err # "" THEN Effect(T, nid, checked)
    ELSE LET r == create(T, nid, tool_data) IN
         IF r.out.err # "" THEN r
         ELSE Effect(r.tools, r.nextId, Ok(ToolResponse(r.out.value)))

\* tool_data.handler_name of a ToolUpdate: None unless set to a value
UpdateHandlerName(tool_data) ==
    IF "handler_name" \in DOMAIN tool_data.values /\ "handler_name" \notin tool_data.nones
    THEN tool_data.values.handler_name
    ELSE None

\* update_tool_check with create_tool's name check added
update_tool_check_with_name_check(T, tool_id, tool_data) ==
    IF UpdateHandlerName(tool_data) # None /\ get_handler(UpdateHandlerName(tool_data)) = None
    THEN Raise("ToolHandlerNotFoundError",
               <<"Handler '", UpdateHandlerName(tool_data), "' not found in registry">>)
    ELSE IF get_by_id(T, tool_id) = {}
    THEN Raise("ToolNotFoundError", <<"Tool with ID ", ToString(tool_id), " not found">>)
    ELSE IF /\ "name" \in DOMAIN tool_data.values
            /\ NameTaken(T, tool_data.values.name, tool_id)
    THEN Raise("ValidationError",
               <<"Tool with name '", tool_data.values.name, "' already exists">>)
    ELSE Ok(get_by_id(T, tool_id))

\* update_tool_check without the handler check
update_tool_check_without_handler_check(T, tool_id, tool_data) ==
    IF get_by_id(T, tool_id) = {}
    THEN Raise("ToolNotFoundError", <<"Tool with ID ", ToString(tool_id), " not found">>)
    ELSE Ok(get_by_id(T, tool_id))

\* update_tool up to the commit: the handler check and get_by_id
update_tool_check(T, tool_id, tool_data) ==
    IF UpdateHandlerName(tool_data) # None /\ get_handler(UpdateHandlerName(tool_data)) = None
    THEN Raise("ToolHandlerNotFoundError",
               <<"Handler '", UpdateHandlerName(tool_data), "' not found in registry">>)
    ELSE IF get_by_id(T, tool_id) = {}
    THEN Raise("ToolNotFoundError", <<"Tool with ID ", ToString(tool_id), " not found">>)
    ELSE Ok(get_by_id(T, tool_id))

\* update_tool run without interruption
update_tool(T, nid, tool_id, tool_data) ==
    LET checked == update_tool_check(T, tool_id, tool_data) IN
    IF checked.err # "" THEN Effect(T, nid, checked)
    ELSE LET r == update(T, nid, tool_id, tool_data) IN
         IF r.out.err # "" THEN r
         ELSE Effect(r.tools, r.nextId, Ok(ToolResponse(TheRow(r.out.value))))

\* delete_tool soft-deleting whatever `soft` says
delete_tool_always_soft(T, nid, tool_id, soft) ==
    LET r == soft_delete(T, nid, tool_id) IN
    IF r.out.value = FALSE
    THEN Effect(T, nid, Raise("ToolNotFoundError",
                              <<"Tool with ID ", ToString(tool_id), " not found">>))
    ELSE Effect(r.tools, r.nextId, Ok(TRUE))

delete_tool(T, nid, tool_id, soft) ==
    LET r == IF soft THEN soft_delete(T, nid, tool_id) ELSE delete(T, nid, tool_id) IN
    IF r.out.value = FALSE
    THEN Effect(T, nid, Raise("ToolNotFoundError",
                              <<"Tool with ID ", ToString(tool_id), " not found">>))
    ELSE Effect(r.tools, r.nextId, Ok(TRUE))

\* the outcome of execute_tool, with the handlers it invoked
Executed(out, invoked) ==
    [err |-> out.err, msg |-> out.msg, value |-> out.value, invoked |-> invoked]

\* execute_tool without the is_active test
execute_tool_ignoring_is_active(T, tool_name, parameters) ==
    IF get_by_name(T, tool_name) = {}
    THEN Executed(Raise("ToolNotFoundError", <<"Tool '", tool_name, "' not found">>), {})
    ELSE LET tool == TheRow(get_by_name(T, tool_name)) IN
      IF get_handler(tool.handler_name) = None
      THEN Executed(Raise("ToolHandlerNotFoundError",
                          <<"Handler '", tool.handler_name, "' not found in registry">>), {})
      ELSE LET handler == get_handler(tool.handler_name)
               result == CallHandler(handler, parameters)
           IN  IF result.raised
               THEN Executed(Raise("ToolHandlerError",
                                   <<"Handler execution failed: ">> \o result.msg),
                             {handler})
               ELSE Executed(Ok(result.value), {handler})

\* execute_tool letting the handler's own exception through
execute_tool_unwrapped(T, tool_name, parameters) ==
    IF get_by_name(T, tool_name) = {}
    THEN Executed(Raise("ToolNotFoundError", <<"Tool '", tool_name, "' not found">>), {})
    ELSE LET tool == TheRow(get_by_name(T, tool_name)) IN
      IF ~tool.is_active
      THEN Executed(Raise("ToolNotFoundError",
                          <<"Tool '", tool_name, "' is not active">>), {})
      ELSE IF get_handler(tool.handler_name) = None
      THEN Executed(Raise("ToolHandlerNotFoundError",
                          <<"Handler '", tool.handler_name, "' not found in registry">>), {})
      ELSE LET handler == get_handler(tool.handler_name)
               result == CallHandler(handler, parameters)
           IN  IF result.raised
               THEN Executed(Raise(result.exc, result.msg), {handler})
               ELSE Executed(Ok(result.value), {handler})

execute_tool(T, tool_name, parameters) ==
    IF get_by_name(T, tool_name) = {}
    THEN Executed(Raise("ToolNotFoundError", <<"Tool '", tool_name, "' not found">>), {})
    ELSE LET tool == TheRow(get_by_name(T, tool_name)) IN
      IF ~tool.is_active
      THEN Executed(Raise("ToolNotFoundError",
                          <<"Tool '", tool_name, "' is not active">>), {})
      ELSE IF get_handler(tool.handler_name) = None
      THEN Executed(Raise("ToolHandlerNotFoundError",
                          <<"Handler '", tool.handler_name, "' not found in registry">>), {})
      ELSE LET handler == get_handler(tool.handler_name)
               result == CallHandler(handler, parameters)
           IN  IF result.raised
               THEN Executed(Raise("ToolHandlerError",
                                   <<"Handler execution failed: ">> \o result.msg),
                             {handler})
               ELSE Executed(Ok(result.value), {handler})

\* get_tool: the row of the id, active or not
get_tool(T, tool_id) ==
    IF get_by_id(T, tool_id) = {}
    THEN Raise("ToolNotFoundError", <<"Tool with ID ", ToString(tool_id), " not found">>)
    ELSE Ok(ToolResponse(TheRow(get_by_id(T, tool_id))))

\* get_tool_by_name answering for active rows only
get_tool_by_name_active_only(T, name) ==
    IF get_by_name({r \in T : IsActive(r)}, name) = {}
    THEN Raise("ToolNotFoundError", <<"Tool with name '", name, "' not found">>)
    ELSE Ok(ToolResponse(TheRow(get_by_name(T, name))))

\* get_tool_by_name: the row of the name, active or not
get_tool_by_name(T, name) ==
    IF get_by_name(T, name) = {}
    THEN Raise("ToolNotFoundError", <<"Tool with name '", name, "' not found">>)
    ELSE Ok(ToolResponse(TheRow(get_by_name(T, name))))

\* list_tools handing the rows back sorted by id, the newest first
list_tools_newest_first(scan, active_only) ==
    LET tools_ == IF active_only THEN list_active(scan) ELSE list_all(scan)
        n == Len(tools_)
        Rank(i) == Cardinality({j \in 1..n : tools_[j].id > tools_[i].id}) + 1
    IN  [k \in 1..n |-> ToolResponse(tools_[CHOOSE i \in 1..n : Rank(i) = k])]

\* list_tools over the rows as the store yields them: one response per row of
\* the repository's list, in the list's order
list_tools(scan, active_only) ==
    LET tools_ == IF active_only THEN list_active(scan) ELSE list_all(scan)
    IN  [i \in 1..Len(tools_) |-> ToolResponse(tools_[i])]

----------------------------------------------------------------------------
(* MCP registrar and stubs: src/mcp_server/tools.py *)

\* the input schema the transport derives from dynamic_tool(**kwargs) itself
SignatureSchema == [type |-> "object", additionalProperties |-> TRUE]

\* register_tool: what mcp.tool(name=name, description=description) receives
register_tool(name, description, parameters_schema) ==
    [name |-> name, description |-> description, input_schema |-> SignatureSchema]

\* load_and_register_tools listing every row, inactive ones included
load_and_register_all_tools(scan) ==
    LET listed == Elements(list_tools(scan, FALSE)) IN
    [loaded |-> listed,
     registered |-> {register_tool(tool.name, tool.description, tool.parameters_schema) :
                        tool \in listed}]

\* load_and_register_tools: the tools of the list read at startup and the
\* stubs registered, one for each
load_and_register_tools(scan) ==
    LET listed == Elements(list_tools(scan, TRUE)) IN
    [loaded |-> listed,
     registered |-> {register_tool(tool.name, tool.description, tool.parameters_schema) :
                        tool \in listed}]

\* the classes an error kind derives from (src/core/exceptions.py)
Bases(err) ==
    {err, "Exception"}
    \cup (IF err = "ToolNotFoundError" THEN {"NotFoundError"} ELSE {})
    \cup (IF err \in {"ValidationError", "ToolNotFoundError", "NotFoundError",
                      "ToolHandlerError", "ToolHandlerNotFoundError", "DatabaseError"}
         THEN {"ApplicationError"} ELSE {})

\* dynamic_tool catching NotFoundError alone
dynamic_tool_catching_not_found(T, name, kwargs) ==
    LET r == execute_tool(T, name, kwargs) IN
    IF r.err = "" THEN r
    ELSE IF "NotFoundError" \in Bases(r.err)
    THEN Executed(Ok([success |-> FALSE, error |-> r.msg]), r.invoked)
    ELSE r

\* dynamic_tool running the handler the tool had when it was registered
dynamic_tool_cached_handler(T, name, kwargs) ==
    LET r == execute_tool(T, name, kwargs)
        cached == {t.handler_name : t \in {t \in loaded : t.name = name}}
    IN  IF r.err = "" /\ cached # {} /\ cached \subseteq TOOL_HANDLERS
        THEN LET handler == CHOOSE h \in cached : TRUE
                 result == CallHandler(handler, kwargs)
             IN  IF result.raised
                 THEN Executed(Ok([success |-> FALSE,
                                   error |-> <<"Handler execution failed: ">> \o result.msg]),
                               {handler})
                 ELSE Executed(Ok(result.value), {handler})
        ELSE IF r.err = "" THEN r
        ELSE Executed(Ok([success |-> FALSE, error |-> r.msg]), r.invoked)

\* dynamic_tool following the id of the tool it was registered for
dynamic_tool_by_id(T, name, kwargs) ==
    LET ids == {t.id : t \in {t \in loaded : t.name = name}}
        rows == {r \in T : r.id \in ids}
        r == execute_tool(T, IF rows = {} THEN name ELSE TheRow(rows).name, kwargs)
    IN  IF r.err = "" THEN r
        ELSE Executed(Ok([success |-> FALSE, error |-> r.msg]), r.invoked)

\* the stub of the tool registered as `name`, called with kwargs
dynamic_tool(T, name, kwargs) ==
    LET r == execute_tool(T, name, kwargs) IN
    IF r.err = "" THEN r
    ELSE IF "Exception" \in Bases(r.err)
    THEN Executed(Ok([success |-> FALSE, error |-> r.msg]), r.invoked)
    ELSE r

----------------------------------------------------------------------------
(* Inputs *)

Names == {"echo", "calculator_add"}

HandlerNames == TOOL_HANDLERS \cup {"nonexistent_handler"}

EchoDescription ==
    "Echo back the provided text. Useful for testing and simple text repetition."
AddDescription ==
    "Add two numbers together. Performs simple addition operation."
Descriptions == {EchoDescription, AddDescription}

TextSchema == [type |-> "object", required |-> <<"text">>]
NumbersSchema == [type |-> "object", required |-> <<"a", "b">>]
Schemas == {TextSchema, NumbersSchema}

\* ToolCreate payloads over the given field values
ToolCreates(names, handlers, descriptions, schemas, actives) ==
    [name : names, description : descriptions, handler_name : handlers,
     parameters_schema : schemas, is_active : actives]

\* ToolUpdate payloads that set one field, to a value or to None
ToolUpdates(names, handlers, descriptions, schemas, actives) ==
    {[values |-> [name |-> n], nones |-> {}] : n \in names}
    \cup {[values |-> [handler_name |-> h], nones |-> {}] : h \in handlers}
    \cup {[values |-> [description |-> d], nones |-> {}] : d \in descriptions}
    \cup {[values |-> [parameters_schema |-> p], nones |-> {}] : p \in schemas}
    \cup {[values |-> [is_active |-> a], nones |-> {}] : a \in actives}
    \cup {[values |-> [name |-> n, handler_name |-> h], nones |-> {"description"}] :
              n \in names, h \in handlers}

Ids == 1..MaxId

\* keyword arguments of a tool call
Kwargs ==
    {[text |-> PyStr("Hello, World!")],
     [a |-> PyInt(2), b |-> PyInt(3)],
     [a |-> PyStr("invalid"), b |-> PyInt(5)],
     [a |-> PyStr("7"), b |-> PyNone],
     [a |-> PyInt(1), b |-> PyBigInt],
     <<>>}

----------------------------------------------------------------------------
(* Actions *)

Idle == [pc |-> "idle"]

Init ==
    /\ tools = {}
    /\ nextId = 1
    /\ started = FALSE
    /\ loaded = {}
    /\ registered = {}
    /\ tasks = [t \in 1..MaxTasks |-> Idle]
    /\ last = [op |-> "init"]

Apply(r) ==
    /\ r.nextId <= MaxId + 1
    /\ tools' = r.tools
    /\ nextId' = r.nextId

CreateTool(tool_data) ==
    LET r == create_tool(tools, nextId, tool_data) IN
    /\ Apply(r)
    /\ last' = [op |-> "create_tool", data |-> tool_data, out |-> r.out]
    /\ UNCHANGED <<started, loaded, registered, tasks>>

\* ToolRepository.create called directly, as the repository's own callers do
RepositoryCreate(data) ==
    LET r == create(tools, nextId, data) IN
    /\ Apply(r)
    /\ last' = [op |-> "create", data |-> data, out |-> r.out]
    /\ UNCHANGED <<started, loaded, registered, tasks>>

UpdateTool(tool_id, tool_data) ==
    LET r == update_tool(tools, nextId, tool_id, tool_data) IN
    /\ Apply(r)
    /\ last' = [op |-> "update_tool", id |-> tool_id, data |-> tool_data, out |-> r.out]
    /\ UNCHANGED <<started, loaded, registered, tasks>>

DeleteTool(tool_id, soft) ==
    LET r == delete_tool(tools, nextId, tool_id, soft) IN
    /\ Apply(r)
    /\ last' = [op |-> "delete_tool", id |-> tool_id, soft |-> soft, out |-> r.out]
    /\ UNCHANGED <<started, loaded, registered, tasks>>

Activate(tool_id) ==
    LET r == activate(tools, nextId, tool_id) IN
    /\ Apply(r)
    /\ last' = [op |-> "activate", id |-> tool_id, out |-> r.out]
    /\ UNCHANGED <<started, loaded, registered, tasks>>

\* ToolRepository.soft_delete called directly
SoftDelete(tool_id) ==
    LET r == soft_delete(tools, nextId, tool_id) IN
    /\ Apply(r)
    /\ last' = [op |-> "soft_delete", id |-> tool_id, out |-> r.out]
    /\ UNCHANGED <<started, loaded, registered, tasks>>

ExecuteTool(tool_name, parameters) ==
    /\ last' = [op |-> "execute_tool", name |-> tool_name, parameters |-> parameters,
                out |-> execute_tool(tools, tool_name, parameters)]
    /\ UNCHANGED <<tools, nextId, started, loaded, registered, tasks>>

GetTool(tool_id) ==
    /\ last' = [op |-> "get_tool", id |-> tool_id, out |-> get_tool(tools, tool_id)]
    /\ UNCHANGED <<tools, nextId, started, loaded, registered, tasks>>

GetToolByName(name) ==
    /\ last' = [op |-> "get_tool_by_name", name |-> name,
                out |-> get_tool_by_name(tools, name)]
    /\ UNCHANGED <<tools, nextId, started, loaded, registered, tasks>>

\* list_tools over whichever order the store yields the rows in
ListTools(active_only) ==
    /\ \E scan \in Scans(tools) :
          last' = [op |-> "list_tools", active_only |-> active_only,
                   scan |-> [i \in DOMAIN scan |-> scan[i].id],
                   out |-> Ok(list_tools(scan, active_only))]
    /\ UNCHANGED <<tools, nextId, started, loaded, registered, tasks>>

\* startup() of the MCP process: the one registration pass
Startup ==
    /\ ~started
    /\ started' = TRUE
    /\ \E scan \in Scans(tools) :
          /\ loaded' = load_and_register_tools(scan).loaded
          /\ registered' = load_and_register_tools(scan).registered
    /\ last' = [op |-> "load_and_register_tools"]
    /\ UNCHANGED <<tools, nextId, tasks>>

\* the transport dispatches a call to a registered stub
InvokeStub(name, kwargs) ==
    /\ \E e \in registered : e.name = name
    /\ last' = [op |-> "dynamic_tool", name |-> name, parameters |-> kwargs,
                out |-> dynamic_tool(tools, name, kwargs)]
    /\ UNCHANGED <<tools, nextId, started, loaded, registered, tasks>>

\* a concurrent create_tool call runs up to its first await
CreateCheck(t, tool_data) ==
    /\ tasks[t].pc = "idle"
    /\ LET checked == create_tool_check(tools, tool_data) IN
       /\ tasks' = [tasks EXCEPT ![t] =
                        IF checked.err # "" THEN Idle
                        ELSE [pc |-> "insert", data |-> tool_data]]
       /\ last' = [op |-> "create_tool_check", err |-> checked.err]
    /\ UNCHANGED <<tools, nextId, started, loaded, registered>>

\* a concurrent create_tool call resumes: repository.create, then the response
CreateInsert(t) ==
    /\ tasks[t].pc = "insert"
    /\ LET r == create(tools, nextId, tasks[t].data) IN
          /\ Apply(r)
          /\ tasks' = [tasks EXCEPT ![t] = Idle]
          /\ last' = [op |-> "create_tool", err |-> r.out.err]
    /\ UNCHANGED <<started, loaded, registered>>

\* a concurrent update_tool call runs up to the await of its commit
UpdateLoad(t, tool_id, tool_data) ==
    /\ tasks[t].pc = "idle"
    /\ LET checked == update_tool_check(tools, tool_id, tool_data) IN
       /\ tasks' = [tasks EXCEPT ![t] =
                        IF checked.err # "" THEN Idle
                        ELSE [pc |-> "commit", data |-> tool_data,
                              instance |-> TheRow(checked.value)]]
       /\ last' = [op |-> "update_tool_check", err |-> checked.err]
    /\ UNCHANGED <<tools, nextId, started, loaded, registered>>

\* a concurrent update_tool call resumes: the commit, then the response
UpdateCommit(t) ==
    /\ tasks[t].pc = "commit"
    /\ LET r == update_commit(tools, nextId, tasks[t].instance, tasks[t].data) IN
          /\ Apply(r)
          /\ tasks' = [tasks EXCEPT ![t] = Idle]
          /\ last' = [op |-> "update_tool", err |-> r.out.err]
    /\ UNCHANGED <<started, loaded, registered>>

----------------------------------------------------------------------------
(* Specifications *)

\* The service called by one caller at a time, executing tools directly.
ServiceCreates ==
    ToolCreates(Names, HandlerNames, {EchoDescription}, {TextSchema}, BOOLEAN)

\* rows written through the repository alone, which validates no handler
RepositoryCreates ==
    ToolCreates(Names, {"nonexistent_handler"}, {EchoDescription},
                {TextSchema}, {TRUE})

ServiceUpdates ==
    ToolUpdates(Names, HandlerNames, {}, {}, BOOLEAN)

Next ==
    \/ \E d \in ServiceCreates : CreateTool(d)
    \/ \E d \in RepositoryCreates : RepositoryCreate(d)
    \/ \E i \in Ids, d \in ServiceUpdates : UpdateTool(i, d)
    \/ \E i \in Ids, soft \in BOOLEAN : DeleteTool(i, soft)
    \/ \E i \in Ids : Activate(i)
    \/ \E i \in Ids : SoftDelete(i)
    \/ \E n \in Names, p \in Kwargs : ExecuteTool(n, p)
    \/ \E i \in Ids : GetTool(i)
    \/ \E n \in Names : GetToolByName(n)
    \/ \E a \in BOOLEAN : ListTools(a)

Spec == Init /\ [][Next]_vars

\* The MCP process beside the administrative callers: the store changes before
\* and after the startup pass, and the transport calls the registered stubs.
INITIAL_TOOLS ==
    {[name |-> "echo", description |-> EchoDescription,
      handler_name |-> "echo_handler", parameters_schema |-> TextSchema,
      is_active |-> TRUE],
     [name |-> "calculator_add", description |-> AddDescription,
      handler_name |-> "calculator_add_handler", parameters_schema |-> NumbersSchema,
      is_active |-> TRUE]}

McpCreates ==
    INITIAL_TOOLS \cup {[d EXCEPT !.is_active = FALSE] : d \in INITIAL_TOOLS}

McpRepositoryCreates ==
    {[d EXCEPT !.handler_name = "nonexistent_handler"] : d \in INITIAL_TOOLS}

McpUpdates ==
    ToolUpdates({}, HandlerNames, {}, {}, {})

McpKwargs ==
    {[text |-> PyStr("Hello, World!")],
     [a |-> PyInt(2), b |-> PyInt(3)],
     [a |-> PyStr("invalid"), b |-> PyInt(5)],
     [a |-> PyInt(1), b |-> PyBigInt]}

NextMcp ==
    \/ \E d \in McpCreates : CreateTool(d)
    \/ \E d \in McpRepositoryCreates : RepositoryCreate(d)
    \/ \E i \in Ids, d \in McpUpdates : UpdateTool(i, d)
    \/ \E i \in Ids, soft \in BOOLEAN : DeleteTool(i, soft)
    \/ \E i \in Ids : Activate(i)
    \/ Startup
    \/ \E n \in Names, p \in McpKwargs : InvokeStub(n, p)

SpecMcp == Init /\ [][NextMcp]_vars

\* Concurrent callers: create_tool and update_tool calls of several tasks
\* interleave at their awaits (between the checks and the commit), among
\* deletions and activations, each of which is one commit of the store.
ConcCreates ==
    ToolCreates(Names, {"echo_handler"}, {EchoDescription}, {TextSchema},
                {TRUE})

\* renames, to a name that the creates also use
ConcUpdates == ToolUpdates({"echo"}, {}, {}, {}, {})

Tasks == 1..MaxTasks

NextConc ==
    \/ \E t \in Tasks, d \in ConcCreates : CreateCheck(t, d)
    \/ \E t \in Tasks : CreateInsert(t)
    \/ \E t \in Tasks, i \in Ids, d \in ConcUpdates : UpdateLoad(t, i, d)
    \/ \E t \in Tasks : UpdateCommit(t)
    \/ \E i \in Ids, soft \in BOOLEAN : DeleteTool(i, soft)
    \/ \E i \in Ids : Activate(i)

SpecConc == Init /\ [][NextConc]_vars

\* Concurrent create_tool calls alone.
RaceCreates ==
    ToolCreates(Names, {"echo_handler", "nonexistent_handler"},
                {EchoDescription}, {TextSchema}, BOOLEAN)

NextRace ==
    \/ \E t \in Tasks, d \in RaceCreates : CreateCheck(t, d)
    \/ \E t \in Tasks : CreateInsert(t)

SpecRace == Init /\ [][NextRace]_vars

\* The service alone: every row is written by create_tool and changed by the
\* service's operations, no caller goes to the repository's create.
NextService ==
    \/ \E d \in ServiceCreates : CreateTool(d)
    \/ \E i \in Ids, d \in ServiceUpdates : UpdateTool(i, d)
    \/ \E i \in Ids, soft \in BOOLEAN : DeleteTool(i, soft)
    \/ \E i \in Ids : Activate(i)
    \/ \E n \in Names, p \in Kwargs : ExecuteTool(n, p)

SpecService == Init /\ [][NextService]_vars

\* The MCP process while tools are renamed and created: the startup pass, then
\* calls to the stubs it registered.
RenameCreates ==
    ToolCreates(Names, TOOL_HANDLERS, {EchoDescription}, {TextSchema}, {TRUE})

RenameUpdates == ToolUpdates(Names, {}, {}, {}, {})

RenameKwargs ==
    {[text |-> PyStr("Hello, World!")],
     [a |-> PyInt(2), b |-> PyInt(3)]}

NextRename ==
    \/ \E d \in RenameCreates : CreateTool(d)
    \/ \E i \in Ids, d \in RenameUpdates : UpdateTool(i, d)
    \/ Startup
    \/ \E n \in Names, p \in RenameKwargs : InvokeStub(n, p)

SpecRename == Init /\ [][NextRename]_vars

----------------------------------------------------------------------------
(* Properties *)

\* the rows of T named `name`, as a count
NamedRows(T, name) == Cardinality({r \in T : r.name = name})

\* C1: in every reachable state, under every interleaving of create_tool,
\* update_tool (renames included), delete_tool (soft or hard) and activate, no
\* two rows of the store have the same name, active or not.
C1_UniqueNames ==
    \A r1 \in tools, r2 \in tools : r1.name = r2.name => r1 = r2

\* a rename has just been refused by the store while an inactive row exists
C1_Witness ==
    /\ last.op = "update_tool"
    /\ last.err = "IntegrityError"
    /\ Cardinality(tools) = 2
    /\ \E r \in tools : ~r.is_active

\* C2: create_tool with a registered handler_name and the name of an existing
\* row (active or soft-deleted) fails with ValidationError and leaves the store
\* as it was.
C2_DuplicateNameRejected ==
    [][(/\ last'.op = "create_tool"
        /\ last'.data.handler_name \in TOOL_HANDLERS
        /\ \E r \in tools : r.name = last'.data.name)
       => (last'.out.err = "ValidationError" /\ tools' = tools /\ nextId' = nextId)]_vars

\* a create was refused because a soft-deleted row holds the name
C2_Witness ==
    /\ last.op = "create_tool"
    /\ last.out.err = "ValidationError"
    /\ \E r \in tools : r.name = last.data.name /\ ~r.is_active

\* C3: create_tool with a handler_name that is no key of the registry fails
\* with ToolHandlerNotFoundError and adds no row, whatever the name, an
\* existing name included.
C3_UnknownHandlerRejected ==
    [][(/\ last'.op = "create_tool"
        /\ last'.data.handler_name \notin TOOL_HANDLERS)
       => (last'.out.err = "ToolHandlerNotFoundError" /\ tools' = tools
           /\ nextId' = nextId)]_vars

\* a create with an unknown handler and an existing name was refused
C3_Witness ==
    /\ last.op = "create_tool"
    /\ last.out.err = "ToolHandlerNotFoundError"
    /\ \E r \in tools : r.name = last.data.name

\* C4: execute_tool on a row that is not active fails with ToolNotFoundError,
\* the error kind of a name with no row, and invokes no handler; and once a
\* tool is soft-deleted every execution of it fails that way.
C4_InactiveIsNotFound ==
    [][/\ (/\ last'.op = "execute_tool"
           /\ \A r \in tools : r.name = last'.name => ~r.is_active)
          => (last'.out.err = "ToolNotFoundError" /\ last'.out.invoked = {})
       /\ (/\ last'.op = "delete_tool"
           /\ last'.soft
           /\ last'.out.err = "")
          => \A r \in get_by_id(tools, last'.id), p \in Kwargs :
                /\ execute_tool(tools', r.name, p).err = "ToolNotFoundError"
                /\ execute_tool(tools', r.name, p).invoked = {}]_vars

\* an execution of an inactive tool with a registered handler was refused
C4_Witness ==
    /\ last.op = "execute_tool"
    /\ last.out.err = "ToolNotFoundError"
    /\ \E r \in tools : /\ r.name = last.name
                         /\ ~r.is_active
                         /\ r.handler_name \in TOOL_HANDLERS

\* the last n parts of a message
Suffix(msg, n) == SubSeq(msg, Len(msg) - n + 1, Len(msg))

\* C5: for an active tool with a registered handler, execute_tool returns
\* exactly the mapping the handler returns (also one that reports
\* success = false, as calculator_add does for a non-numeric operand), and
\* when the handler raises it fails with ToolHandlerError carrying the
\* handler's message; no other error kind escapes.
C5_ExecuteMirrorsHandler ==
    (/\ last.op = "execute_tool"
     /\ \E r \in tools : /\ r.name = last.name
                          /\ r.is_active
                          /\ r.handler_name \in TOOL_HANDLERS)
    => LET tool == TheRow(get_by_name(tools, last.name))
           result == CallHandler(tool.handler_name, last.parameters)
       IN  /\ last.out.err \in {"", "ToolHandlerError"}
           /\ ~result.raised => (last.out.err = "" /\ last.out.value = result.value)
           /\ result.raised =>
                 /\ last.out.err = "ToolHandlerError"
                 /\ Len(last.out.msg) > Len(result.msg)
                 /\ Suffix(last.out.msg, Len(result.msg)) = result.msg
           /\ (/\ tool.handler_name = "calculator_add_handler"
               /\ last.parameters = [a |-> PyStr("invalid"), b |-> PyInt(5)])
              => /\ last.out.err = ""
                 /\ last.out.value.success = FALSE
                 /\ "error" \in DOMAIN last.out.value
           /\ (/\ tool.handler_name = "calculator_add_handler"
               /\ last.parameters = [a |-> PyInt(1), b |-> PyBigInt])
              => /\ last.out.err = "ToolHandlerError"
                 /\ last.out.msg = <<"Handler execution failed: ",
                                     "int too large to convert to float">>

\* a handler raised and the execution failed with ToolHandlerError
C5_Witness ==
    /\ last.op = "execute_tool"
    /\ last.out.err = "ToolHandlerError"
    /\ last.out.invoked = {"calculator_add_handler"}

\* C6: a call of a registered stub never ends in a fault: in every store
\* state it returns a mapping, and whenever execute_tool fails the mapping is
\* {success: false, error: <the failure's message>}.
C6_StubNeverFaults ==
    last.op = "dynamic_tool"
    => /\ last.out.err = ""
       /\ "success" \in DOMAIN last.out.value
       /\ get_by_name(tools, last.name) = {}
          => last.out.value = [success |-> FALSE,
                               error |-> <<"Tool '", last.name, "' not found">>]
       /\ \A r \in get_by_name(tools, last.name) :
             /\ ~r.is_active
                => last.out.value = [success |-> FALSE,
                                     error |-> <<"Tool '", last.name, "' is not active">>]
             /\ (r.is_active /\ r.handler_name \notin TOOL_HANDLERS)
                => last.out.value =
                      [success |-> FALSE,
                       error |-> <<"Handler '", r.handler_name, "' not found in registry">>]
             /\ (/\ r.is_active
                 /\ r.handler_name \in TOOL_HANDLERS
                 /\ CallHandler(r.handler_name, last.parameters).raised)
                => last.out.value =
                      [success |-> FALSE,
                       error |-> <<"Handler execution failed: ">>
                                 \o CallHandler(r.handler_name, last.parameters).msg]

\* a stub was called whose tool names an unregistered handler
C6_Witness ==
    /\ last.op = "dynamic_tool"
    /\ last.out.err = ""
    /\ last.out.value.success = FALSE
    /\ \E r \in tools : /\ r.name = last.name
                         /\ r.is_active
                         /\ r.handler_name \notin TOOL_HANDLERS

\* the names registered with the transport
RegisteredNames == {e.name : e \in registered}

\* C7: the startup pass registers exactly the names of the rows active when
\* it lists them, and the registered set never changes afterwards, whatever
\* is created, activated or deleted later.
C7_StartupSnapshot ==
    [][/\ (~started /\ started')
          => {e.name : e \in registered'} = {r.name : r \in {t \in tools : IsActive(t)}}
       /\ started => (started' /\ registered' = registered)]_vars

\* after startup: an active tool that is not registered, and a registered
\* name whose row is gone
C7_Witness ==
    /\ started
    /\ \E r \in tools : r.is_active /\ r.name \notin RegisteredNames
    /\ \E n \in RegisteredNames : get_by_name(tools, n) = {}

\* C8: every stub the startup pass registers is advertised with the
\* description and the parameters_schema of the row it was made from.
C8_AdvertisedAsStored ==
    \A e \in registered :
        \E t \in loaded : /\ t.name = e.name
                           /\ e.description = t.description
                           /\ e.input_schema = t.parameters_schema

\* C9: a stub resolves the row and the handler from the store at each call:
\* the handler it runs is the one the row names now, also after update_tool
\* changed handler_name since registration.
C9_StubResolvesPerCall ==
    (/\ last.op = "dynamic_tool"
     /\ \E r \in tools : /\ r.name = last.name
                          /\ r.is_active
                          /\ r.handler_name \in TOOL_HANDLERS)
    => LET tool == TheRow(get_by_name(tools, last.name))
           result == CallHandler(tool.handler_name, last.parameters)
       IN  /\ last.out.invoked = {tool.handler_name}
           /\ ~result.raised => last.out.value = result.value

\* a stub ran a handler other than the one its row named at registration
C9_Witness ==
    /\ last.op = "dynamic_tool"
    /\ \E r \in tools, t \in loaded :
          /\ r.name = last.name
          /\ t.name = r.name
          /\ t.id = r.id
          /\ t.handler_name # r.handler_name
          /\ last.out.invoked = {r.handler_name}
          /\ last.out.value.success = TRUE

\* C10: when create_tool calls for one new name interleave, the call that
\* inserts while the name is free succeeds and adds the one row of that
\* name; a call that inserts after it fails with the store's
\* unique-constraint violation (not ValidationError) and changes nothing.
C10_RaceHasOneWinner ==
    [][\A t \in Tasks :
          (tasks[t].pc = "insert" /\ tasks'[t].pc = "idle")
          => /\ NamedRows(tools', tasks[t].data.name) = 1
             /\ IF NamedRows(tools, tasks[t].data.name) = 0
                THEN /\ last'.err = ""
                     /\ Cardinality(tools') = Cardinality(tools) + 1
                     /\ tools \subseteq tools'
                ELSE /\ last'.err = "IntegrityError"
                     /\ tools' = tools]_vars

\* the loser of a race was refused by the store, and one row has the name
C10_Witness ==
    /\ last.op = "create_tool"
    /\ last.err = "IntegrityError"
    /\ \E n \in Names : NamedRows(tools, n) = 1

\* C11: list_tools(active_only=true) returns exactly the rows whose is_active
\* is true, each once, and list_tools(active_only=false) returns every row,
\* each once; neither call changes the store.
C11_ListSelectsRows ==
    [][last'.op = "list_tools"
       => LET listed == last'.out.value
              selected == IF last'.active_only
                          THEN {r \in tools : r.is_active = TRUE}
                          ELSE tools
          IN  /\ last'.out.err = ""
              /\ {listed[i] : i \in DOMAIN listed} = {ToolResponse(r) : r \in selected}
              /\ Len(listed) = Cardinality(selected)
              /\ \A i, j \in DOMAIN listed : i # j => listed[i] # listed[j]
              /\ tools' = tools
              /\ nextId' = nextId]_vars

\* the active listing of a store holding one active and one inactive tool
C11_Witness ==
    /\ last.op = "list_tools"
    /\ last.active_only
    /\ Len(last.out.value) = 1
    /\ Cardinality(tools) = 2
    /\ \E r \in tools : ~r.is_active

\* C12 as stated: list_tools returns the tools in ascending order of id, for
\* both values of active_only and after any creates, updates and deletes.
C12_AscendingIds ==
    last.op = "list_tools"
    => \A i, j \in DOMAIN last.out.value :
          i < j => last.out.value[i].id < last.out.value[j].id

\* C12, amended: list_tools returns the selected tools in the order in which
\* the store yields the rows (the queries have no ORDER BY), for both values of
\* active_only; the result is in ascending order of id whenever the store
\* yields the rows in ascending order of id.
C12_StoreOrderKept ==
    last.op = "list_tools"
    => LET listed == last.out.value
           scan == last.scan
           Pos(id) == CHOOSE k \in DOMAIN scan : scan[k] = id
       IN  /\ \A i \in DOMAIN listed : \E k \in DOMAIN scan : scan[k] = listed[i].id
           /\ \A i, j \in DOMAIN listed :
                 i < j => Pos(listed[i].id) < Pos(listed[j].id)
           /\ (\A k, l \in DOMAIN scan : k < l => scan[k] < scan[l])
              => \A i, j \in DOMAIN listed : i < j => listed[i].id < listed[j].id

\* the store yielded the newer row first and list_tools returned it first
C12_Witness ==
    /\ last.op = "list_tools"
    /\ Len(last.out.value) = 2
    /\ last.out.value[1].id > last.out.value[2].id
    /\ last.scan[1] > last.scan[2]

\* C16: get_tool(id) and get_tool_by_name(name) fail with ToolNotFoundError
\* exactly when no row has that id or that name, and otherwise return the row,
\* whether it is active or inactive.
C16_GetFindsAnyRow ==
    /\ last.op = "get_tool"
       => /\ last.out.err \in {"", "ToolNotFoundError"}
          /\ (last.out.err = "ToolNotFoundError") <=> (\A r \in tools : r.id # last.id)
          /\ \A r \in tools : r.id = last.id => last.out.value = ToolResponse(r)
    /\ last.op = "get_tool_by_name"
       => /\ last.out.err \in {"", "ToolNotFoundError"}
          /\ (last.out.err = "ToolNotFoundError") <=> (\A r \in tools : r.name # last.name)
          /\ \A r \in tools : r.name = last.name => last.out.value = ToolResponse(r)

\* a lookup by name returned an inactive tool
C16_Witness ==
    /\ last.op = "get_tool_by_name"
    /\ last.out.err = ""
    /\ ~last.out.value.is_active
    /\ \E r \in tools : r.name = last.name /\ ~r.is_active

Columns == {"name", "description", "handler_name", "parameters_schema", "is_active"}

\* C14 as stated: update_tool on an existing id changes only the fields present
\* in the partial spec; on an id with no row it fails with ToolNotFoundError
\* and the store is unchanged.
C14_UpdateFrameAsStated ==
    [][last'.op = "update_tool"
       => IF get_by_id(tools, last'.id) = {}
          THEN /\ last'.out.err = "ToolNotFoundError"
               /\ tools' = tools
               /\ nextId' = nextId
          ELSE LET old == TheRow(get_by_id(tools, last'.id))
                   data == last'.data
               IN  /\ tools' \ {r \in tools' : r.id = old.id} = tools \ {old}
                   /\ nextId' = nextId
                   /\ \E new \in tools' :
                         /\ new.id = old.id
                         /\ \A key \in Columns \ (DOMAIN data.values \cup data.nones) :
                               new[key] = old[key]]_vars

\* C14, amended: update_tool on an existing id changes only the fields present
\* in the partial spec, the other fields, the id and every other row keeping
\* their values; on an id with no row it leaves the store unchanged and fails
\* with ToolNotFoundError, unless the partial spec names an unregistered
\* handler, which is checked first and fails with ToolHandlerNotFoundError.
C14_UpdateFrame ==
    [][last'.op = "update_tool"
       => IF get_by_id(tools, last'.id) = {}
          THEN /\ last'.out.err =
                    IF /\ "handler_name" \in DOMAIN last'.data.values
                       /\ last'.data.values.handler_name \notin TOOL_HANDLERS
                    THEN "ToolHandlerNotFoundError"
                    ELSE "ToolNotFoundError"
               /\ tools' = tools
               /\ nextId' = nextId
          ELSE LET old == TheRow(get_by_id(tools, last'.id))
                   data == last'.data
               IN  /\ tools' \ {r \in tools' : r.id = old.id} = tools \ {old}
                   /\ nextId' = nextId
                   /\ \E new \in tools' :
                         /\ new.id = old.id
                         /\ \A key \in Columns \ (DOMAIN data.values \cup data.nones) :
                               new[key] = old[key]]_vars

\* an update of the handler alone succeeded on an inactive row beside another
C14_Witness ==
    /\ last.op = "update_tool"
    /\ last.out.err = ""
    /\ DOMAIN last.data.values = {"handler_name"}
    /\ Cardinality(tools) = 2
    /\ \E r \in tools : r.id = last.id /\ ~r.is_active

\* C15: delete_tool(id, soft=true) leaves the row in the store with is_active
\* false, its name still refused to create_tool; delete_tool(id, soft=false)
\* removes the row, so that get_tool(id) then fails and the name can be
\* created again; on an id with no row both fail with ToolNotFoundError and
\* change nothing.
C15_DeleteSoftOrHard ==
    [][last'.op = "delete_tool"
       => IF get_by_id(tools, last'.id) = {}
          THEN /\ last'.out.err = "ToolNotFoundError"
               /\ tools' = tools
               /\ nextId' = nextId
          ELSE LET tool == TheRow(get_by_id(tools, last'.id))
                   again == {d \in ServiceCreates : /\ d.name = tool.name
                                                     /\ d.handler_name \in TOOL_HANDLERS}
               IN  /\ last'.out.err = ""
                   /\ IF last'.soft
                      THEN /\ tools' = (tools \ {tool})
                                          \cup {[tool EXCEPT !.is_active = FALSE]}
                           /\ \A d \in again :
                                 create_tool(tools', nextId', d).out.err = "ValidationError"
                      ELSE /\ tools' = tools \ {tool}
                           /\ get_tool(tools', last'.id).err = "ToolNotFoundError"
                           /\ \A d \in again :
                                 /\ create_tool(tools', nextId', d).out.err = ""
                                 /\ create_tool(tools', nextId', d).tools
                                       = tools' \cup {Tool(nextId', d)}]_vars

\* a hard delete removed one of two rows
C15_Witness ==
    /\ last.op = "delete_tool"
    /\ ~last.soft
    /\ last.out.err = ""
    /\ Cardinality(tools) = 1
    /\ \A r \in tools : r.id # last.id

\* C17: in the states reached through the service, every stored handler_name
\* is a key of the registry; so execute_tool never fails with
\* ToolHandlerNotFoundError, and update_tool with an unregistered handler_name
\* fails with ToolHandlerNotFoundError and leaves the row unchanged.
C17_HandlersStayRegistered ==
    [][/\ \A r \in tools' : r.handler_name \in TOOL_HANDLERS
       /\ last'.op = "execute_tool" => last'.out.err # "ToolHandlerNotFoundError"
       /\ (/\ last'.op = "update_tool"
           /\ "handler_name" \in DOMAIN last'.data.values
           /\ last'.data.values.handler_name \notin TOOL_HANDLERS)
          => (last'.out.err = "ToolHandlerNotFoundError" /\ tools' = tools)]_vars

\* an update of an existing row to an unregistered handler was refused
C17_Witness ==
    /\ last.op = "update_tool"
    /\ last.out.err = "ToolHandlerNotFoundError"
    /\ \E r \in tools : r.id = last.id /\ r.handler_name \in TOOL_HANDLERS

\* C18: update_tool(id, {name: n}) on an existing row, n being the name of a
\* different existing row, is never rejected with ValidationError; the store's
\* unique constraint rejects it, and both rows keep the names they had.
C18_RenameToTakenName ==
    [][(/\ last'.op = "update_tool"
        /\ DOMAIN last'.data.values = {"name"}
        /\ last'.data.nones = {}
        /\ get_by_id(tools, last'.id) # {}
        /\ \E r \in tools : r.id # last'.id /\ r.name = last'.data.values.name)
       => (/\ last'.out.err # "ValidationError"
           /\ last'.out.err = "IntegrityError"
           /\ tools' = tools)]_vars

\* a rename to the name of an inactive row was refused by the store
C18_Witness ==
    /\ last.op = "update_tool"
    /\ last.out.err = "IntegrityError"
    /\ DOMAIN last.data.values = {"name"}
    /\ \E r \in tools : r.id # last.id /\ r.name = last.data.values.name /\ ~r.is_active

\* C19: a stub resolves its tool by the name it was registered with, not by
\* id: once the registered tool has been renamed, a call of its stub returns
\* {success: false, error} for a name not found, and when another tool has
\* since been created under the old name the stub runs that tool's handler.
C19_StubFollowsName ==
    last.op = "dynamic_tool"
    => \A t \in loaded :
          (/\ t.name = last.name
           /\ \E r \in tools : r.id = t.id /\ r.name # t.name)
          => /\ (\A r \in tools : r.name # last.name)
                => last.out = Executed(Ok([success |-> FALSE,
                                           error |-> <<"Tool '", last.name, "' not found">>]),
                                       {})
             /\ \A r \in tools : r.name = last.name
                   => /\ r.id # t.id
                      /\ last.out.invoked = {get_handler(r.handler_name)}

\* the stub of a renamed tool ran the other handler of the tool created since
\* under the old name
C19_Witness ==
    /\ last.op = "dynamic_tool"
    /\ \E t \in loaded, r \in tools, o \in tools :
          /\ t.name = last.name
          /\ r.id = t.id
          /\ r.name # t.name
          /\ o.name = last.name
          /\ o.id # t.id
          /\ o.handler_name # t.handler_name
          /\ last.out.invoked = {o.handler_name}

=============================================================================
